---- MODULE Spec2Model ----
(***************************************************************************)
(* State-machine model of the uc480 camera driver                          *)
(* (pylablib/devices/uc480/uc480.py): ROI / binning negotiation against    *)
(* the device limits, the binning and subsampling setters, and the         *)
(* acquisition life cycle with its ring of device buffers.                 *)
(*                                                                         *)
(* The vendor library (the lib.is_ calls) is the Device collaborator: it   *)
(* is modelled by the state the driver reads back from it (factors, AOI    *)
(* rectangle, capture flag, image memory) and by the log of the capture    *)
(* commands the driver issues.                                             *)
(***************************************************************************)
EXTENDS Integers, Sequences, FiniteSets, TLC

VARIABLES
    geom,             \* sensor info and AOI limits reported by the device
    binCaps,          \* is_SetBinning(IS_GET_SUPPORTED_BINNING) capability mask
    subCaps,          \* is_SetSubSampling(IS_GET_SUPPORTED_SUBSAMPLING) mask
    roi_binning_mode, \* self._roi_binning_mode: "bin" or "subsample"
    hcam,             \* self.hcam: the handle lib.is_InitCamera returned
    devBin,           \* device binning factors <<horizontal, vertical>>
    devSub,           \* device subsampling factors <<horizontal, vertical>>
    aoi,              \* device AOI rectangle [x, y, w, h], in binned pixels
    colorMode,        \* device color mode (name)
    live,             \* device capture flag (is_CaptureVideo(IS_GET_LIVE))
    seqCnt,           \* device sequence counter (IS_SEQUENCE_CNT)
    devMem,           \* image memory allocated on the device: id -> size
    devSeq,           \* ids registered in the device capture sequence
    cmds,             \* capture commands and status queries issued to the device
    memCmds,          \* image-memory commands the last call issued: <<name, id>>
    acq_in_progress,  \* self._acq_in_progress
    buffers,          \* self._buffers: None or the list of buffer ids
    acq_params,       \* self._acq_params: None or nframes
    frame_counter,    \* self._frame_counter: None or [nframes, acquired]
    call,             \* the driver method called last, with its arguments
    ret,              \* its outcome: [exc, val]
    src,              \* source array of the array copy called last
    dst,              \* its destination array
    pos               \* None, or while the copy runs: elements written by each iteration

devVars  == <<devBin, devSub, aoi, colorMode, live, seqCnt, devMem, devSeq, cmds>>
ctlVars  == <<acq_in_progress, buffers, acq_params, frame_counter>>
sessVars == <<geom, binCaps, subCaps, roi_binning_mode, hcam>>
copyVars == <<src, dst, pos>>
vars     == <<geom, binCaps, subCaps, roi_binning_mode, hcam, devBin, devSub, aoi,
              colorMode, live, seqCnt, devMem, devSeq, cmds, memCmds, acq_in_progress,
              buffers, acq_params, frame_counter, call, ret, src, dst, pos>>

(***************************************************************************)
(* Bounds of the model.                                                    *)
(***************************************************************************)
MaxCoord     == 9    \* largest start / end coordinate a request names
MaxFactorReq == 3    \* largest binning / subsampling factor a request names
MaxFrames    == 2    \* largest ring size given to setup_acquisition
MaxCmds      == 6    \* longest device command log explored

(***************************************************************************)
(* Python values: None / optional arguments, outcomes of a call.           *)
(***************************************************************************)
None      == <<>>
Some(v)   == <<v>>
IsNone(o) == Len(o) = 0
Get(o)    == o[1]

Ok(v)     == [exc |-> "none", val |-> v]
Raise(e)  == [exc |-> e, val |-> <<>>]
IsOk(r)   == r.exc = "none"

Max2(a, b) == IF a >= b THEN a ELSE b
Min2(a, b) == IF a <= b THEN a ELSE b
SetMax(S)  == CHOOSE m \in S : \A x \in S : x <= m

\* the value read as it is, without the call
PyCallValue(v) == Ok(v)

\* self._acq_in_progress(): the attribute holds a bool (set in __init__ and
\* in start/stop_acquisition); calling a bool raises TypeError.
PyCall(v) == IF v \in BOOLEAN THEN Raise("TypeError") ELSE Ok(v)

(***************************************************************************)
(* Binning / subsampling factor tables and capability masks.               *)
(* A mask is the set of its bits; the bit of factor s > 1 on axis d is     *)
(* <<d, s>>, and factor 1 has the empty mask (value 0).                    *)
(***************************************************************************)
Factors == {1, 2, 3, 4, 5, 6, 8, 16}

_subsampling_modes(d, s) == IF s = 1 THEN {} ELSE {<<d, s>>}
_binning_modes(d, s)     == IF s = 1 THEN {} ELSE {<<d, s>>}

\* supp[d]: the factors whose mask is contained in the capability mask
SuppSub(all_modes, d) == {s \in Factors : _subsampling_modes(d, s) \subseteq all_modes}
SuppBin(all_modes, d) == {s \in Factors : _binning_modes(d, s) \subseteq all_modes}

get_supported_subsampling_modes == <<SuppSub(subCaps, "h"), SuppSub(subCaps, "v")>>
get_supported_binning_modes     == <<SuppBin(binCaps, "v"), SuppBin(binCaps, "h")>>

\* one axis of _truncate_subsampling: max([m for m in modes if m<=max(sub,1)])
MaxOf(cand) == IF cand = {} THEN Raise("ValueError") ELSE Ok(SetMax(cand))

\* TruncAxis without the max(sub,1) of lines 339-340
TruncAxisNoFloor(sub, modes) == MaxOf({m \in modes : m <= sub})

TruncAxis(sub, modes) == MaxOf({m \in modes : m <= Max2(sub, 1)})

\* the pair of the two axes' outcomes, or the first error raised
BothAxes(h, v) ==
    IF ~IsOk(h) THEN h
    ELSE IF ~IsOk(v) THEN v
    ELSE Ok(<<h.val, v.val>>)

_truncate_subsampling(hsub, vsub, all_modes) ==
    BothAxes(TruncAxis(hsub, all_modes[1]), TruncAxis(vsub, all_modes[2]))

_truncate_roi_binning(hbin, vbin) ==
    LET all_modes == IF roi_binning_mode = "subsample"
                     THEN get_supported_subsampling_modes
                     ELSE get_supported_binning_modes
    IN  _truncate_subsampling(hbin, vbin, all_modes)

(***************************************************************************)
(* ROI negotiation.                                                        *)
(***************************************************************************)
get_detector_size == <<geom.wdet, geom.hdet>>
_get_roi_limits   == <<geom.hlims, geom.vlims>>

\* _adj_roi_axis, step by step; start, end and detsize are in binned pixels
\* from AdjClamp on.
\*   if end>detsize: end=detsize; start=detsize-minsize; return start*binv,end*binv
AdjShift(start, end, minsize, detsize, binv) ==
    IF end > detsize THEN <<(detsize - minsize) * binv, detsize * binv>>
    ELSE <<start * binv, end * binv>>

\*   if end-start<minsize: end=start+minsize
AdjMinSize(start, end, minsize, detsize, binv) ==
    AdjShift(start, IF end - start < minsize THEN start + minsize ELSE end,
             minsize, detsize, binv)

\*   end-=(end-start)%wstep
AdjSpan(start, end, minsize, detsize, wstep, binv) ==
    AdjMinSize(start, end - ((end - start) % wstep), minsize, detsize, binv)

\*   start-=start%pstep; end-=end%pstep
AdjAlign(start, end, minsize, detsize, wstep, pstep, binv) ==
    AdjSpan(start - (start % pstep), end - (end % pstep), minsize, detsize, wstep, binv)

\*   end=min(end,detsize); start=min(start,detsize)
AdjClamp(start, end, minsize, detsize, wstep, pstep, binv) ==
    AdjAlign(Min2(start, detsize), Min2(end, detsize), minsize, detsize, wstep, pstep, binv)

\* _adj_roi_axis without "if end is None: end=detsize": no end counts as 0
AdjRoiAxisNoDefault(start, end, minsize, detsize, wstep, pstep, binv) ==
    AdjClamp(start \div binv,
             (IF IsNone(end) THEN 0 ELSE Get(end)) \div binv,
             minsize, detsize \div binv, wstep, pstep, binv)

\* start, end in unbinned pixels, end optional; the result is <<start, end>>
_adj_roi_axis(start, end, minsize, detsize, wstep, pstep, binv) ==
    AdjClamp(start \div binv,
             (IF IsNone(end) THEN detsize ELSE Get(end)) \div binv,
             minsize, detsize \div binv, wstep, pstep, binv)

\* the two axes adjusted under the truncated factors bin = <<hbin, vbin>>
TruncRoiAxes(h, v, bin) == Ok(<<h[1], h[2], v[1], v[2], bin[1], bin[2]>>)

TruncRoiWith(roi, bin, det, hlims, vlims) ==
    IF ~IsOk(bin) THEN bin
    ELSE TruncRoiAxes(
            _adj_roi_axis(roi[1], roi[2], hlims[1], det[1], hlims[2], hlims[3], bin.val[1]),
            _adj_roi_axis(roi[3], roi[4], vlims[1], det[2], vlims[2], vlims[3], bin.val[2]),
            bin.val)

\* roi = <<hstart, hend, vstart, vend, hbin, vbin>>, hend and vend optional
_trunc_roi(roi) ==
    TruncRoiWith(roi, _truncate_roi_binning(roi[5], roi[6]), get_detector_size,
                 _get_roi_limits[1], _get_roi_limits[2])

\* a returned 6-tuple given back as the arguments of a call
AsRequest(r) == <<r[1], Some(r[2]), r[3], Some(r[4]), r[5], r[6]>>

(***************************************************************************)
(* The Device: binning, subsampling and AOI registers.                     *)
(* D = [bin, sub] holds the two factor pairs while a method runs.          *)
(***************************************************************************)
FactorOf(mask, d) == IF \E s \in Factors : <<d, s>> \in mask
                     THEN CHOOSE s \in Factors : <<d, s>> \in mask
                     ELSE 1

\* lib.is_SetSubSampling(hcam, mask, check=True): a mask outside the
\* capability mask is rejected; a non-trivial one turns binning off
is_SetSubSampling(D, mask) ==
    IF ~(mask \subseteq subCaps) THEN [exc |-> "uc480LibError", D |-> D]
    ELSE [exc |-> "none",
          D   |-> [sub |-> <<FactorOf(mask, "h"), FactorOf(mask, "v")>>,
                   bin |-> IF mask # {} THEN <<1, 1>> ELSE D.bin]]

\* lib.is_SetBinning(hcam, mask, check=True): a mask outside the capability
\* mask is rejected; a non-trivial one turns subsampling off
is_SetBinning(D, mask) ==
    IF ~(mask \subseteq binCaps) THEN [exc |-> "uc480LibError", D |-> D]
    ELSE [exc |-> "none",
          D   |-> [bin |-> <<FactorOf(mask, "h"), FactorOf(mask, "v")>>,
                   sub |-> IF mask # {} THEN <<1, 1>> ELSE D.sub]]

get_subsampling(D) == D.sub
get_binning(D)     == D.bin

\* the methods below return [exc, D, val]: the outcome and the device after
SetSubsamplingDone(r) ==
    [exc |-> r.exc, D |-> r.D, val |-> IF r.exc = "none" THEN get_subsampling(r.D) ELSE <<>>]

SetSubsamplingTo(D, t) ==
    IF ~IsOk(t) THEN [exc |-> t.exc, D |-> D, val |-> <<>>]
    ELSE SetSubsamplingDone(is_SetSubSampling(D,
            _subsampling_modes("h", t.val[1]) \cup _subsampling_modes("v", t.val[2])))

set_subsampling(D, hsub, vsub) ==
    SetSubsamplingTo(D, _truncate_subsampling(hsub, vsub, get_supported_subsampling_modes))

SetBinningDone(r) ==
    [exc |-> r.exc, D |-> r.D, val |-> IF r.exc = "none" THEN get_binning(r.D) ELSE <<>>]

SetBinningTo(D, t) ==
    IF ~IsOk(t) THEN [exc |-> t.exc, D |-> D, val |-> <<>>]
    ELSE SetBinningDone(is_SetBinning(D,
            _binning_modes("h", t.val[1]) \cup _binning_modes("v", t.val[2])))

set_binning(D, hbin, vbin) ==
    SetBinningTo(D, _truncate_subsampling(hbin, vbin, get_supported_binning_modes))

_get_roi_binning(D) ==
    IF roi_binning_mode = "subsample" THEN get_subsampling(D) ELSE get_binning(D)

\* the second setter call of _set_roi_binning, made unless the first raised
ThenSetBinning(a, hbin, vbin) ==
    IF a.exc # "none" THEN a ELSE set_binning(a.D, hbin, vbin)

\* _set_roi_binning without the call that sets the other mode back to (1,1)
SetRoiBinningNoReset(D, hbin, vbin) ==
    IF roi_binning_mode = "subsample"
    THEN set_subsampling(D, hbin, vbin)
    ELSE set_binning(D, hbin, vbin)

_set_roi_binning(D, hbin, vbin) ==
    IF roi_binning_mode = "subsample"
    THEN ThenSetBinning(set_subsampling(D, hbin, vbin), 1, 1)
    ELSE ThenSetBinning(set_subsampling(D, 1, 1), hbin, vbin)

\* get_roi on a device holding AOI rectangle rect, b = _get_roi_binning()
GetRoiWith(rect, b) ==
    <<rect.x * b[1], (rect.x + rect.w) * b[1],
      rect.y * b[2], (rect.y + rect.h) * b[2], b[1], b[2]>>

get_roi(D, rect) == GetRoiWith(rect, _get_roi_binning(D))

\* IS_RECT(hstart//hbin, vstart//vbin, (hend-hstart)//hbin, (vend-vstart)//vbin)
IS_RECT(t) == [x |-> t[1] \div t[5], y |-> t[3] \div t[6],
               w |-> (t[2] - t[1]) \div t[5], h |-> (t[4] - t[3]) \div t[6]]

\* set_roi: [exc, D, rect, val], the outcome and the device after the call
\*   lib.is_AOI(IS_AOI_IMAGE_SET_AOI, aoi); return self.get_roi()
SetRoiAoi(b, rect, new) ==
    IF b.exc # "none" THEN [exc |-> b.exc, D |-> b.D, rect |-> rect, val |-> <<>>]
    ELSE [exc |-> "none", D |-> b.D, rect |-> new, val |-> get_roi(b.D, new)]

SetRoiTo(D, rect, t) ==
    IF ~IsOk(t) THEN [exc |-> t.exc, D |-> D, rect |-> rect, val |-> <<>>]
    ELSE SetRoiAoi(_set_roi_binning(D, t.val[5], t.val[6]), rect, IS_RECT(t.val))

set_roi(D, rect, roi) == SetRoiTo(D, rect, _trunc_roi(roi))

DevD == [bin |-> devBin, sub |-> devSub]

(***************************************************************************)
(* Pixel formats: (bits per pixel, channels) of each color mode, or None.  *)
(***************************************************************************)
_mode_properties(mode) ==
    CASE mode \in {"raw8", "mono8"} -> Some(<<8, 1>>)
      [] mode \in {"raw10", "raw12", "raw16", "mono10", "mono12", "mono16",
                   "bgr5p", "bgr565p"} -> Some(<<16, 1>>)
      [] mode \in {"rgb8p", "bgr8p"} -> Some(<<24, 3>>)
      [] mode \in {"rgba8p", "bgra8p", "rgby8p", "bgry8p",
                   "uyuvp", "uyvy_monop", "uyuv_bayerp"} -> Some(<<32, 4>>)
      [] mode \in {"rgb10p", "bgr10p"} -> Some(<<24, 1>>)
      [] mode \in {"rgb10up", "bgr10up", "rgb12up", "bgr12up"} -> Some(<<48, 3>>)
      [] mode \in {"rgba12up", "bgra12up"} -> Some(<<64, 4>>)
      [] mode \in {"cbycryp", "jpeg", "rgb8plan"} -> None

_get_pixel_mode_settings == _mode_properties(colorMode)

\* (rows, columns) of a frame under the device's current ROI
DataDimensions(roi) == <<(roi[4] - roi[3]) \div roi[6], (roi[2] - roi[1]) \div roi[5]>>

_get_data_dimensions_rc(D, rect) == DataDimensions(get_roi(D, rect))

(***************************************************************************)
(* Color modes.  The device applies a supported mode, silently substitutes *)
(* its default for some modes, and rejects the others with                 *)
(* IS_INVALID_COLOR_FORMAT; a faulty command fails with another error code *)
(* (IS_NO_SUCCESS).  A command's outcome is [exc, mode]: the error and the *)
(* device color mode after it.                                             *)
(***************************************************************************)
\* the names of _color_modes, in the order of the dictionary
ColorModeNames ==
    << "raw8", "raw10", "raw12", "raw16", "mono8", "mono10", "mono12", "mono16",
       "bgr5p", "bgr565p", "rgb8p", "bgr8p", "rgba8p", "bgra8p", "rgby8p", "bgry8p",
       "rgb10p", "bgr10p", "rgb10up", "bgr10up", "rgb12up", "bgr12up",
       "rgba12up", "bgra12up", "cbycryp", "uyuvp", "uyvy_monop", "uyuv_bayerp",
       "jpeg", "rgb8plan" >>

ColorSupported   == {"mono8", "mono16", "rgb8p", "rgb10p", "jpeg"}
ColorSubstituted == {"raw8"}
DefaultColorMode == "mono8"

\* lib.is_SetColorMode(self.hcam, m) on a device in mode cur
is_SetColorMode(cur, m, faulty) ==
    IF faulty THEN [exc |-> "IS_NO_SUCCESS", mode |-> cur]
    ELSE IF m \in ColorSupported THEN [exc |-> "none", mode |-> m]
    ELSE IF m \in ColorSubstituted THEN [exc |-> "none", mode |-> DefaultColorMode]
    ELSE [exc |-> "IS_INVALID_COLOR_FORMAT", mode |-> cur]

RECURSIVE ProbeFrom(_, _, _, _)
\* the body of the loop for entry k, s the outcome of its lib.is_SetColorMode
\* (check=True); every error but IS_INVALID_COLOR_FORMAT is raised again
ProbeOne(k, names, fault, s) ==
    IF s.exc = "IS_INVALID_COLOR_FORMAT" THEN ProbeFrom(k + 1, s.mode, names, fault)
    ELSE IF s.exc # "none" THEN [exc |-> "uc480LibError", mode |-> s.mode, val |-> <<>>]
    ELSE ProbeFrom(k + 1, s.mode,
                   IF s.mode = ColorModeNames[k] THEN Append(names, ColorModeNames[k])
                   ELSE names,
                   fault)

\* for n,m in self._color_modes.items(), from entry k on; the command of
\* entry fault is the faulty one
ProbeFrom(k, mode, names, fault) ==
    IF k > Len(ColorModeNames) THEN [exc |-> "none", mode |-> mode, val |-> names]
    ELSE ProbeOne(k, names, fault, is_SetColorMode(mode, ColorModeNames[k], fault = k))

\* lib.is_SetColorMode(self.hcam,m0); return names
ProbeRestore(m0, p) ==
    IF p.exc # "none" THEN p
    ELSE [p EXCEPT !.mode = is_SetColorMode(p.mode, m0, FALSE).mode]

_check_all_color_modes(m0, fault) == ProbeRestore(m0, ProbeFrom(1, m0, <<>>, fault))

\* lib.is_SetColorMode(self.hcam,mode,check=True); return self.get_color_mode()
SetColorModeDone(s) ==
    IF s.exc # "none" THEN [exc |-> "uc480LibError", mode |-> s.mode, val |-> <<>>]
    ELSE [exc |-> "none", mode |-> s.mode, val |-> s.mode]

set_color_mode(cur, mode) == SetColorModeDone(is_SetColorMode(cur, mode, FALSE))

(***************************************************************************)
(* Buffer controls.  M = [buffers, devMem, devSeq, log]: self._buffers,    *)
(* the image memory allocated on the device (id -> <<width, height,        *)
(* bpp>>), the ids in the device capture sequence, and the image-memory    *)
(* commands issued so far by the running call.                             *)
(***************************************************************************)
Without(mem, ids) == [i \in (DOMAIN mem) \ ids |-> mem[i]]
SeqRange(q)       == {q[i] : i \in DOMAIN q}

\* the lib.is_FreeImageMem commands of the loop over self._buffers
FreeCmds(ids) == [i \in DOMAIN ids |-> <<"is_FreeImageMem", ids[i]>>]

\* _deallocate_buffers without the loop of lib.is_FreeImageMem
DeallocateWithoutFree(M) ==
    IF IsNone(M.buffers) THEN M
    ELSE [M EXCEPT !.buffers = None, !.devSeq = <<>>,
                   !.log = Append(@, <<"is_ClearSequence", 0>>)]

\* _deallocate_buffers without its last line, self._buffers=None
DeallocateKeepingPool(M) ==
    IF IsNone(M.buffers) THEN M
    ELSE [M EXCEPT !.devMem = Without(@, SeqRange(Get(M.buffers))),
                   !.devSeq = <<>>,
                   !.log = @ \o <<<<"is_ClearSequence", 0>>>> \o FreeCmds(Get(M.buffers))]

\* lib.is_ClearSequence, then lib.is_FreeImageMem for every buffer
_deallocate_buffers(M) ==
    IF IsNone(M.buffers) THEN M
    ELSE [buffers |-> None,
          devMem  |-> Without(M.devMem, SeqRange(Get(M.buffers))),
          devSeq  |-> <<>>,
          log     |-> M.log \o <<<<"is_ClearSequence", 0>>>> \o FreeCmds(Get(M.buffers))]

\* A device fault <<k, kind>>: the k-th is_AllocImageMem ("alloc") or the
\* k-th is_AddToSequence ("add") of a call is rejected; NoFault: none is.
NoFault   == <<0, "none">>
Faults(n) == {NoFault} \cup {<<k, kind>> : k \in 1..n, kind \in {"alloc", "add"}}

\* the device gives a new image memory the smallest id not in use
FreshId(mem) == CHOOSE i \in 1..(Cardinality(DOMAIN mem) + 1) : i \notin DOMAIN mem

\* lib.is_AllocImageMem(h, width, height, bpp): rejected for a handle that is
\* not the open camera's, and when the device is out of memory
is_AllocImageMem(h, mem, k, fault) ==
    IF h # hcam \/ fault = <<k, "alloc">> THEN Raise("uc480LibError")
    ELSE Ok(FreshId(mem))

\* the buffer is appended to self._buffers as soon as it is allocated
AllocOnly(M, id, size) ==
    [M EXCEPT !.buffers = Some(Append(Get(M.buffers), id)),
              !.devMem  = [i \in (DOMAIN M.devMem) \cup {id} |->
                              IF i \in DOMAIN M.devMem THEN M.devMem[i] ELSE size],
              !.log     = Append(@, <<"is_AllocImageMem", id>>)]

\* lib.is_AllocImageMem(1, width, height, bpp) and lib.is_AddToSequence
AllocOne(M, id, size) ==
    [AllocOnly(M, id, size) EXCEPT !.devSeq = Append(@, id),
                                   !.log    = Append(@, <<"is_AddToSequence", id>>)]

RECURSIVE AllocLoop(_, _, _, _, _)
\* one iteration, a the outcome of its lib.is_AllocImageMem
AllocStep(M, n, size, k, fault, a) ==
    IF ~IsOk(a)
    THEN [exc |-> a.exc, M |-> [M EXCEPT !.log = Append(@, <<"is_AllocImageMem", 0>>)]]
    ELSE IF fault = <<k, "add">>
    THEN [exc |-> "uc480LibError",
          M   |-> [AllocOnly(M, a.val, size) EXCEPT !.log = Append(@, <<"is_AddToSequence", a.val>>)]]
    ELSE AllocLoop(AllocOne(M, a.val, size), n, size, k + 1, fault)

\* for _ in range(n), from iteration k on
AllocLoop(M, n, size, k, fault) ==
    IF k > n THEN [exc |-> "none", M |-> M]
    ELSE AllocStep(M, n, size, k, fault, is_AllocImageMem(1, M.devMem, k, fault))

\* the rest of _allocate_buffers after its call of _deallocate_buffers;
\* dims = _get_data_dimensions_rc(), pix = _get_pixel_mode_settings()
AllocateAfter(M, n, dims, pix, fault) ==
    IF IsNone(pix) THEN [exc |-> "TypeError", M |-> M]
    ELSE AllocLoop([M EXCEPT !.buffers = Some(<<>>)], n,
                   <<dims[2], dims[1], Get(pix)[1]>>, 1, fault)

\* _allocate_buffers without its first line, self._deallocate_buffers()
AllocateWithoutRelease(M, n, D, rect, fault) ==
    AllocateAfter(M, n, _get_data_dimensions_rc(D, rect), _get_pixel_mode_settings, fault)

_allocate_buffers(M, n, D, rect, fault) ==
    AllocateAfter(_deallocate_buffers(M), n, _get_data_dimensions_rc(D, rect),
                  _get_pixel_mode_settings, fault)

DevM == [buffers |-> buffers, devMem |-> devMem, devSeq |-> devSeq, log |-> <<>>]

(***************************************************************************)
(* Frame retrieval.  The outcome of _read_buffer is [exc, val, log]; val   *)
(* describes the frame: the slot and buffer id read, the shape of the      *)
(* array and the byte width of its elements.                               *)
(***************************************************************************)
\* _np_dtypes={8:"u1",16:"<u2",32:"<u4"}, by the byte width of the type
_np_dtypes(bits) ==
    CASE bits = 8  -> Some(1)
      [] bits = 16 -> Some(2)
      [] bits = 32 -> Some(4)
      [] OTHER     -> None

\* lib.is_GetImageInfo: <<dwImageWidth, dwImageHeight>> of an image memory
is_GetImageInfo(mem, id) == <<mem[id][1], mem[id][2]>>

\* shape=(height,width)+((nchan,) if nchan>1 else ())
FrameShape(info, nchan) ==
    IF nchan > 1 THEN <<info[2], info[1], nchan>> ELSE <<info[2], info[1]>>

\* np.empty(shape, dtype=self._np_dtypes[bpp//nchan]), then lib.is_CopyImageMem
ReadCopy(slot, id, info, nchan, dtype) ==
    IF IsNone(dtype)
    THEN [exc |-> "KeyError", val |-> <<>>, log |-> <<<<"is_GetImageInfo", id>>>>]
    ELSE [exc |-> "none",
          val |-> [slot |-> slot, id |-> id, shape |-> FrameShape(info, nchan),
                   itemsize |-> Get(dtype)],
          log |-> <<<<"is_GetImageInfo", id>>, <<"is_CopyImageMem", id>>>>]

\* bpp,nchan=self._get_pixel_mode_settings()
ReadDecode(slot, id, info, pix) ==
    IF IsNone(pix)
    THEN [exc |-> "TypeError", val |-> <<>>, log |-> <<<<"is_GetImageInfo", id>>>>]
    ELSE ReadCopy(slot, id, info, Get(pix)[2], _np_dtypes(Get(pix)[1] \div Get(pix)[2]))

\* frame_info=lib.is_GetImageInfo(self.hcam,buff[1])
ReadInfo(M, slot, id) ==
    IF id \notin DOMAIN M.devMem
    THEN [exc |-> "uc480LibError", val |-> <<>>, log |-> <<<<"is_GetImageInfo", id>>>>]
    ELSE ReadDecode(slot, id, is_GetImageInfo(M.devMem, id), _get_pixel_mode_settings)

\* the slot without the modulo: indices past the ring read its last slot
SlotIndexClamped(n, len) == Min2(n, len - 1)

\* n%len(self._buffers)
SlotIndex(n, len) == n % len

ReadSlot(M, slot) == ReadInfo(M, slot, Get(M.buffers)[slot + 1])

_read_buffer(M, n) ==
    IF IsNone(M.buffers) THEN [exc |-> "TypeError", val |-> <<>>, log |-> <<>>]
    ELSE IF Len(Get(M.buffers)) = 0
    THEN [exc |-> "ZeroDivisionError", val |-> <<>>, log |-> <<>>]
    ELSE ReadSlot(M, SlotIndex(n, Len(Get(M.buffers))))

(***************************************************************************)
(* Frame counter and acquisition parameters of the camera base class.      *)
(***************************************************************************)
FrameCounterReset(n)      == [nframes |-> n, acquired |-> 0]
FrameCounterUpdate(fc, k) == [fc EXCEPT !.acquired = k]
BaseSetupAcquisition(n)   == Some(n)
BaseClearAcquisition      == None

(***************************************************************************)
(* Acquisition life cycle.  A = [flag, live, cmds, fc] is the part of the  *)
(* state stop_acquisition and start_acquisition work on.                   *)
(***************************************************************************)
_get_acquired_frames == seqCnt

\* the body of stop_acquisition once its condition c has been evaluated
StopIf(A, c) ==
    IF ~IsOk(c) THEN [exc |-> c.exc, A |-> A]
    ELSE IF c.val
    THEN [exc |-> "none",
          A   |-> [flag |-> FALSE, live |-> FALSE,
                   cmds |-> A.cmds \o <<"is_CameraStatus", "is_StopLiveVideo">>,
                   fc   |-> FrameCounterUpdate(A.fc, _get_acquired_frames)]]
    ELSE [exc |-> "none", A |-> A]

stop_acquisition(A) == StopIf(A, PyCall(A.flag))

\* self._frame_counter.reset(self._acq_params["nframes"])
StartCounters(B) ==
    IF IsNone(acq_params) THEN [exc |-> "TypeError", A |-> B]
    ELSE [exc |-> "none", A |-> [B EXCEPT !.fc = FrameCounterReset(Get(acq_params))]]

\* the rest of start_acquisition after its call s of stop_acquisition
StartAfterStop(s) ==
    IF s.exc # "none" THEN s
    ELSE StartCounters([s.A EXCEPT !.cmds = @ \o <<"is_ResetCaptureStatus", "is_CaptureVideo">>,
                                   !.live = TRUE, !.flag = TRUE])

start_acquisition(A) == StartAfterStop(stop_acquisition(A))

CtlA == [flag |-> acq_in_progress, live |-> live, cmds |-> cmds, fc |-> frame_counter]

(***************************************************************************)
(* Initial states: the session after __init__.                             *)
(***************************************************************************)
Geometries ==
    { [wdet |-> 8,  hdet |-> 6, hlims |-> <<2, 2, 2>>, vlims |-> <<2, 2, 2>>],
      [wdet |-> 12, hdet |-> 8, hlims |-> <<4, 4, 2>>, vlims |-> <<2, 1, 1>>] }

CapMasks == { {}, {<<"h", 2>>, <<"v", 2>>}, {<<"h", 2>>, <<"h", 3>>} }

\* the sessions driven through the state-changing methods
SessGeometries == { [wdet |-> 8, hdet |-> 6, hlims |-> <<2, 2, 2>>, vlims |-> <<2, 2, 2>>] }
SessCapMasks   == { {<<"h", 2>>, <<"v", 2>>}, {<<"h", 2>>, <<"h", 3>>} }

\* a 1280x1024 sensor with minimal size 16, size step 4, position step 2 and
\* the factors 1, 2 and 4 on both axes
ScenarioGeometries ==
    { [wdet |-> 1280, hdet |-> 1024, hlims |-> <<16, 4, 2>>, vlims |-> <<16, 4, 2>>] }
ScenarioCapMasks == { {<<"h", 2>>, <<"h", 4>>, <<"v", 2>>, <<"v", 4>>} }

\* the sessions that allocate buffers and read frames
FrameGeometries == { [wdet |-> 64, hdet |-> 48, hlims |-> <<2, 2, 2>>, vlims |-> <<2, 2, 2>>] }
FrameCapMasks   == { {} }

ModeArgs == {"auto", "bin", "subsample"}

\* __init__: resolution of roi_binning_mode="auto"
InitMode(arg) ==
    IF arg = "auto"
    THEN IF get_supported_binning_modes = <<{1}, {1}>> THEN "subsample" ELSE "bin"
    ELSE arg

\* handles lib.is_InitCamera gives out
Handles == {1, 2}

InitWith(geometries, masks, handles) ==
    /\ geom \in geometries
    /\ hcam \in handles
    /\ memCmds = <<>>
    /\ binCaps \in masks
    /\ subCaps \in masks
    /\ \E arg \in ModeArgs : roi_binning_mode = InitMode(arg)
    /\ devBin = <<1, 1>>
    /\ devSub = <<1, 1>>
    /\ aoi = [x |-> 0, y |-> 0, w |-> geom.wdet, h |-> geom.hdet]
    /\ colorMode = "mono8"
    /\ live = FALSE
    /\ seqCnt = 0
    /\ devMem = <<>>
    /\ devSeq = <<>>
    /\ cmds = <<>>
    /\ acq_in_progress = TRUE
    /\ buffers = None
    /\ acq_params = None
    /\ frame_counter = FrameCounterReset(0)
    /\ call = [op |-> "__init__", args |-> <<>>]
    /\ ret = Ok(<<>>)
    /\ src = <<>>
    /\ dst = <<>>
    /\ pos = None

(***************************************************************************)
(* Requests explored.                                                      *)
(***************************************************************************)
ReqStarts  == {-1, 0, 3, MaxCoord}
ReqEnds    == {None, Some(2), Some(5), Some(MaxCoord)}
ReqFactors == 0..MaxFactorReq

\* every combination, for the calls that change no state
NegRequests == ReqStarts \X ReqEnds \X ReqStarts \X ReqEnds \X ReqFactors \X ReqFactors

\* a request in full-size coordinates, for the 1280x1024 sensor
ScenarioRequests == { <<10, Some(1277), 0, None, 3, 1>> }

\* for the calls that change the device: three extents per axis (the full
\* axis, an inner window, a start beyond the detector) and the factors 1, 2
\* and the largest one requested
RoiAxis     == {<<0, None>>, <<3, Some(5)>>, <<MaxCoord, None>>}
RoiFactors  == {1, 2, MaxFactorReq}
RoiRequests == {<<h[1], h[2], v[1], v[2], hb, vb>> :
                    h \in RoiAxis, v \in RoiAxis, hb \in RoiFactors, vb \in RoiFactors}

\* for the sessions that also run acquisitions: the full frame and an inner
\* window, with factors 1 and 2
AcqFactors  == {1, 2}
AcqRequests == {<<e[1], e[2], e[1], e[2], b, b>> :
                    e \in {<<0, None>>, <<3, Some(5)>>}, b \in AcqFactors}

\* for the sessions that read frames: the full frame and a window
FrameRequests == { <<0, None, 0, None, 1, 1>>, <<0, Some(4), 0, Some(2), 1, 1>> }

\* frame indices read: up to two turns of the largest ring
ReadIndices == 0..(2 * MaxFrames)

\* color modes asked for: the supported ones, a substituted and a rejected one
ColorRequests == ColorSupported \cup {"raw8", "bgr8p"}

\* entry of _color_modes whose probe command is faulty; 0: none
ProbeFaults == {0, 1, 8, Len(ColorModeNames)}

(***************************************************************************)
(* Actions: one per driver method called by the user.                      *)
(***************************************************************************)
\* a call that issued the image-memory commands log and whose outcome is r
ReturnsLogged(op, args, r, log) ==
    /\ call' = [op |-> op, args |-> args]
    /\ ret'  = r
    /\ memCmds' = log

Returns(op, args, r) == ReturnsLogged(op, args, r, <<>>)

\* the device registers and the call record after a method whose outcome is r
Geometry(op, args, r) ==
    /\ devBin' = r.D.bin
    /\ devSub' = r.D.sub
    /\ Returns(op, args, [exc |-> r.exc, val |-> r.val])
    /\ UNCHANGED <<sessVars, copyVars, ctlVars, colorMode, live, seqCnt, devMem, devSeq, cmds>>

SetRoiResult(roi, r) ==
    /\ aoi' = r.rect
    /\ Geometry("set_roi", roi, r)

SetRoi(roi) == SetRoiResult(roi, set_roi(DevD, aoi, roi))

GetRoi ==
    /\ Returns("get_roi", <<>>, Ok(get_roi(DevD, aoi)))
    /\ UNCHANGED <<sessVars, copyVars, ctlVars, devVars>>

SetBinning(hbin, vbin) ==
    /\ UNCHANGED aoi
    /\ Geometry("set_binning", <<hbin, vbin>>, set_binning(DevD, hbin, vbin))

SetSubsampling(hsub, vsub) ==
    /\ UNCHANGED aoi
    /\ Geometry("set_subsampling", <<hsub, vsub>>, set_subsampling(DevD, hsub, vsub))

\* the controller and the capture state after a life-cycle method whose
\* outcome is r
Lifecycle(op, r) ==
    /\ acq_in_progress' = r.A.flag
    /\ live' = r.A.live
    /\ cmds' = r.A.cmds
    /\ frame_counter' = r.A.fc
    /\ Returns(op, <<>>, [exc |-> r.exc, val |-> <<>>])
    /\ UNCHANGED <<sessVars, copyVars, buffers, acq_params, devBin, devSub, aoi, colorMode,
                   seqCnt, devMem, devSeq>>

StopAcquisition ==
    /\ Len(cmds) < MaxCmds
    /\ Lifecycle("stop_acquisition", stop_acquisition(CtlA))

StartAcquisition ==
    /\ Len(cmds) < MaxCmds
    /\ Lifecycle("start_acquisition", start_acquisition(CtlA))

\* the pool and the device memory after a buffer method whose outcome is r
Pool(op, args, r) ==
    /\ buffers' = r.M.buffers
    /\ devMem' = r.M.devMem
    /\ devSeq' = r.M.devSeq
    /\ ReturnsLogged(op, args, [exc |-> r.exc, val |-> <<>>], r.M.log)
    /\ UNCHANGED <<sessVars, copyVars, acq_in_progress, frame_counter, devBin, devSub, aoi,
                   colorMode, live, seqCnt, cmds>>

\* fault: what the device rejects during the call
SetupAcquisition(nframes, fault) ==
    /\ acq_params' = BaseSetupAcquisition(nframes)
    /\ Pool("setup_acquisition", <<nframes>>,
            _allocate_buffers(DevM, nframes, DevD, aoi, fault))

ClearAcquisition ==
    /\ acq_params' = BaseClearAcquisition
    /\ Pool("clear_acquisition", <<>>, [exc |-> "none", M |-> _deallocate_buffers(DevM)])

ReadBufferResult(n, r) ==
    /\ ReturnsLogged("_read_buffer", <<n>>, [exc |-> r.exc, val |-> r.val], r.log)
    /\ UNCHANGED <<sessVars, copyVars, ctlVars, devVars>>

ReadBuffer(n) == ReadBufferResult(n, _read_buffer(DevM, n))

\* the device color mode and the call record after a color method whose
\* outcome is r
Color(op, args, r) ==
    /\ colorMode' = r.mode
    /\ Returns(op, args, [exc |-> r.exc, val |-> r.val])
    /\ UNCHANGED <<sessVars, copyVars, ctlVars, devBin, devSub, aoi, live, seqCnt, devMem,
                   devSeq, cmds>>

SetColorMode(mode) == Color("set_color_mode", <<mode>>, set_color_mode(colorMode, mode))

CheckAllColorModes(fault) ==
    Color("_check_all_color_modes", <<colorMode, fault>>,
          _check_all_color_modes(colorMode, fault))

\* calls that change no state, made on the session as constructed
Fresh == call.op = "__init__"

TruncRoi(roi) ==
    /\ Returns("_trunc_roi", roi, _trunc_roi(roi))
    /\ UNCHANGED <<sessVars, copyVars, ctlVars, devVars>>

TruncateSubsampling(hsub, vsub, all_modes) ==
    /\ Returns("_truncate_subsampling", <<hsub, vsub, all_modes>>,
               _truncate_subsampling(hsub, vsub, all_modes))
    /\ UNCHANGED <<sessVars, copyVars, ctlVars, devVars>>

GetSupportedBinningModes ==
    /\ Returns("get_supported_binning_modes", <<>>, Ok(get_supported_binning_modes))
    /\ UNCHANGED <<sessVars, copyVars, ctlVars, devVars>>

GetSupportedSubsamplingModes ==
    /\ Returns("get_supported_subsampling_modes", <<>>, Ok(get_supported_subsampling_modes))
    /\ UNCHANGED <<sessVars, copyVars, ctlVars, devVars>>

(***************************************************************************)
(* Specifications.                                                         *)
(* Spec: the session driven through all its state-changing methods.        *)
(* SpecRoi: the geometry methods alone, over the larger set of requests.   *)
(* SpecNeg: the negotiation functions applied to every request, on the     *)
(* session as constructed.                                                 *)
(***************************************************************************)
\* the 6-tuple get_roi has just returned, as a request
Readback == IF call.op = "get_roi" THEN {AsRequest(ret.val)} ELSE {}

Next ==
    \/ \E roi \in AcqRequests \cup Readback : SetRoi(roi)
    \/ GetRoi
    \/ \E hbin \in AcqFactors, vbin \in AcqFactors : SetBinning(hbin, vbin)
    \/ \E hsub \in AcqFactors, vsub \in AcqFactors : SetSubsampling(hsub, vsub)
    \/ \E nframes \in 1..MaxFrames : SetupAcquisition(nframes, NoFault)
    \/ ClearAcquisition
    \/ StartAcquisition
    \/ StopAcquisition

Init == InitWith(SessGeometries, SessCapMasks, {1})

Spec == Init /\ [][Next]_vars

NextRoi ==
    \/ \E roi \in RoiRequests \cup Readback : SetRoi(roi)
    \/ GetRoi
    \/ \E hbin \in RoiFactors, vbin \in RoiFactors : SetBinning(hbin, vbin)
    \/ \E hsub \in RoiFactors, vsub \in RoiFactors : SetSubsampling(hsub, vsub)

SpecRoi == Init /\ [][NextRoi]_vars

\* set_roi and get_roi alone: every ROI on the device was put there by set_roi
NextRoundTrip ==
    \/ \E roi \in RoiRequests \cup Readback : SetRoi(roi)
    \/ GetRoi

SpecRoundTrip == Init /\ [][NextRoundTrip]_vars

\* buffers and frames: setup, teardown, reads and color modes, with a device
\* that can reject allocations
NextFrames ==
    \/ \E roi \in FrameRequests : SetRoi(roi)
    \/ \E nframes \in 0..MaxFrames : \E fault \in Faults(nframes) :
            SetupAcquisition(nframes, fault)
    \/ ClearAcquisition
    \/ StartAcquisition
    \/ \E n \in ReadIndices : ReadBuffer(n)
    \/ \E mode \in ColorRequests : SetColorMode(mode)
    \/ \E fault \in ProbeFaults : CheckAllColorModes(fault)

InitFrames == InitWith(FrameGeometries, FrameCapMasks, Handles)

SpecFrames == InitFrames /\ [][NextFrames]_vars

InitNeg ==
    \/ InitWith(Geometries, CapMasks, {1})
    \/ InitWith(ScenarioGeometries, ScenarioCapMasks, {1})

NextNeg ==
    \/ Fresh /\ \E roi \in NegRequests \cup ScenarioRequests : TruncRoi(roi)
    \/ Fresh /\ \E hsub \in ReqFactors, vsub \in ReqFactors,
                   all_modes \in {get_supported_subsampling_modes, get_supported_binning_modes} :
                     TruncateSubsampling(hsub, vsub, all_modes)
    \/ Fresh /\ GetSupportedBinningModes
    \/ Fresh /\ GetSupportedSubsamplingModes

SpecNeg == InitNeg /\ [][NextNeg]_vars

(***************************************************************************)
(* Byte-array tools (pylablib/core/utils/nbtools.py).                      *)
(* An integer of a numba type is the sequence of its bytes, lowest first,  *)
(* with the signedness of the type: the widths are kept, a carry out of    *)
(* the highest byte and a bit shifted out of it are lost.  A byte array is *)
(* a sequence of bytes; the offset off names its element off + 1.          *)
(***************************************************************************)
\* bytes of the type the operands of << and + are promoted to in the
\* compiled functions: u1 << int and the sums are of numba's uintp
WordBytes == 8

Zeros(n) == [i \in 1..n |-> 0]

\* a u1 promoted to a word
Widen(b) == [i \in 1..WordBytes |-> IF i = 1 THEN b ELSE 0]

\* x << bits evaluated in the width of the byte itself: all bits are lost
ShlNarrow(b, bits) == IF bits = 0 THEN Widen(b) ELSE Zeros(WordBytes)

\* x << bits, bits a multiple of 8, evaluated in a word
Shl(b, bits) == [i \in 1..WordBytes |-> IF i = (bits \div 8) + 1 THEN b ELSE 0]

RECURSIVE AddFrom(_, _, _, _)
\* the bytes i.. of a + b with the carry c into byte i
AddFrom(a, b, i, c) ==
    IF i > WordBytes THEN <<>>
    ELSE <<(a[i] + b[i] + c) % 256>> \o AddFrom(a, b, i + 1, (a[i] + b[i] + c) \div 256)

\* a + b in a word
WordAdd(a, b) == AddFrom(a, b, 1, 0)

\* nb.u1 .. nb.u8 and nb.i1 .. nb.i8 applied to a word: its n lowest bytes
CastU(w, n) == [signed |-> FALSE, bytes |-> SubSeq(w, 1, n)]
CastI(w, n) == [signed |-> TRUE,  bytes |-> SubSeq(w, 1, n)]

\* (x[off+1]<<8)+x[off+0]
Sum2(x, off) == WordAdd(Shl(x[off + 2], 8), Widen(x[off + 1]))

\* (x[off+3]<<24)+(x[off+2]<<16)+(x[off+1]<<8)+x[off+0]
Sum4(x, off) ==
    WordAdd(WordAdd(WordAdd(Shl(x[off + 4], 24), Shl(x[off + 3], 16)),
                    Shl(x[off + 2], 8)), Widen(x[off + 1]))

\* (x[off+7]<<56)+(x[off+6]<<48)+(x[off+5]<<40)+(x[off+4]<<32)
UpperSum8(x, off) ==
    WordAdd(WordAdd(WordAdd(Shl(x[off + 8], 56), Shl(x[off + 7], 48)),
                    Shl(x[off + 6], 40)), Shl(x[off + 5], 32))

\* ... +(x[off+3]<<24)+(x[off+2]<<16)+(x[off+1]<<8)+x[off+0]
Sum8(x, off) ==
    WordAdd(WordAdd(WordAdd(WordAdd(UpperSum8(x, off), Shl(x[off + 4], 24)),
                            Shl(x[off + 3], 16)), Shl(x[off + 2], 8)), Widen(x[off + 1]))

au1(x, off) == [signed |-> FALSE, bytes |-> <<x[off + 1]>>]
au2(x, off) == CastU(Sum2(x, off), 2)
au4(x, off) == CastU(Sum4(x, off), 4)
au8(x, off) == CastU(Sum8(x, off), 8)

ai1(x, off) == CastI(Widen(x[off + 1]), 1)
ai2(x, off) == CastI(Sum2(x, off), 2)
ai4(x, off) == CastI(Sum4(x, off), 4)
ai8(x, off) == CastI(Sum8(x, off), 8)

\* byte values explored: zero, a byte with its highest and lowest bit set,
\* and the largest byte
ByteValues == {0, 129, 255}

\* largest offset decoded at
MaxOff == 1

\* the byte arrays that hold exactly the n bytes needed at offset off
ByteArrays(n, off) == [1..(off + n) -> ByteValues]

\* a decoding function applied on the session as constructed, r its result
Decoded(op, x, off, r) ==
    /\ Returns(op, <<x, off>>, Ok(r))
    /\ UNCHANGED <<sessVars, copyVars, ctlVars, devVars>>

Au1 ==
    Fresh /\ \E off \in 0..MaxOff : \E x \in ByteArrays(1, off) : Decoded("au1", x, off, au1(x, off))

Au2 ==
    Fresh /\ \E off \in 0..MaxOff : \E x \in ByteArrays(2, off) : Decoded("au2", x, off, au2(x, off))

Au4 ==
    Fresh /\ \E off \in 0..MaxOff : \E x \in ByteArrays(4, off) : Decoded("au4", x, off, au4(x, off))

Au8 ==
    Fresh /\ \E off \in 0..MaxOff : \E x \in ByteArrays(8, off) : Decoded("au8", x, off, au8(x, off))

Ai1 ==
    Fresh /\ \E off \in 0..MaxOff : \E x \in ByteArrays(1, off) : Decoded("ai1", x, off, ai1(x, off))

Ai2 ==
    Fresh /\ \E off \in 0..MaxOff : \E x \in ByteArrays(2, off) : Decoded("ai2", x, off, ai2(x, off))

Ai4 ==
    Fresh /\ \E off \in 0..MaxOff : \E x \in ByteArrays(4, off) : Decoded("ai4", x, off, ai4(x, off))

Ai8 ==
    Fresh /\ \E off \in 0..MaxOff : \E x \in ByteArrays(8, off) : Decoded("ai8", x, off, ai8(x, off))

\* the decoding functions applied to every array and offset
NextCodec == Au1 \/ Au2 \/ Au4 \/ Au8 \/ Ai1 \/ Ai2 \/ Ai4 \/ Ai8

InitTools == InitWith(FrameGeometries, FrameCapMasks, {1})

SpecCodec == InitTools /\ [][NextCodec]_vars

(***************************************************************************)
(* Array copies (copy_array_chunks, copy_array_strided).  The iterations   *)
(* of nb.prange run one after the other with par=False and in any          *)
(* interleaving with par=True; within an iteration the elements are        *)
(* written in order.  A step writes one element.  The arguments of a call  *)
(* are a = [par, src, dst, n, size, stride, off]; copy_array_chunks reads  *)
(* as with stride = size and off = 0.                                      *)
(***************************************************************************)
MaxChunks == 3    \* largest number of chunks copied
MaxSize   == 2    \* largest chunk size
MaxStride == 3    \* largest stride of the chunks in the source

CopyOps == {"copy_array_chunks", "copy_array_strided"}

\* the destination index with the chunk number not multiplied by the size
DstIndexUnscaled(i, size, p) == i + p

\* dst[i*size+p]
DstIndex(i, size, p) == i * size + p

\* src[i*size+p] and src[i*stride+off+p]
SrcIndex(op, a, i, p) ==
    IF op = "copy_array_chunks" THEN i * a.size + p ELSE i * a.stride + a.off + p

\* dst[...]=src[...] for iteration i (from 0) and element p
CopyElement(op, a, d, i, p) ==
    [d EXCEPT ![DstIndex(i, a.size, p) + 1] = a.src[SrcIndex(op, a, i, p) + 1]]

RECURSIVE CopyLoop(_, _, _, _, _)
\* the two loops run in order from iteration i, element p, on destination d
CopyLoop(op, a, d, i, p) ==
    IF i >= a.n THEN d
    ELSE IF p >= a.size THEN CopyLoop(op, a, d, i + 1, 0)
    ELSE CopyLoop(op, a, CopyElement(op, a, d, i, p), i, p + 1)

\* the destination after the copy with par=False
CopySequential(op, a) == CopyLoop(op, a, a.dst, 0, 0)

\* every index the call reads or writes is inside its array
InRange(op, a) ==
    (a.n > 0 /\ a.size > 0) =>
        /\ DstIndex(a.n - 1, a.size, a.size - 1) < Len(a.dst)
        /\ SrcIndex(op, a, a.n - 1, a.size - 1) < Len(a.src)

\* arrays copied: sources of distinct elements, destinations of zeros with
\* one element more than the largest copy writes
SrcLen    == (MaxChunks - 1) * MaxStride + MaxSize + 1
SrcArrays == { [k \in 1..SrcLen |-> k], [k \in 1..SrcLen |-> 100 + SrcLen - k] }
DstArrays == { Zeros(MaxChunks * MaxSize + 1) }

CopyArgs(op) ==
    { [par |-> par, src |-> s, dst |-> d, n |-> n, size |-> size, stride |-> stride, off |-> off] :
        par \in BOOLEAN, s \in SrcArrays, d \in DstArrays, n \in 0..MaxChunks,
        size \in 0..MaxSize,
        stride \in (IF op = "copy_array_chunks" THEN {0} ELSE 0..MaxStride),
        off \in (IF op = "copy_array_chunks" THEN {0} ELSE {0, 1}) }

\* the copy is entered: nothing is written yet
CopyCall(op, a) ==
    /\ IsNone(pos)
    /\ InRange(op, a)
    /\ call' = [op |-> op, args |-> a]
    /\ src' = a.src
    /\ dst' = a.dst
    /\ pos' = Some([i \in 1..a.n |-> 0])
    /\ UNCHANGED <<sessVars, ctlVars, devVars, memCmds, ret>>

\* iteration i (from 1) writes its next element; with par=False only once
\* the iterations before it are finished
CopyStep(i) ==
    /\ ~IsNone(pos)
    /\ i \in DOMAIN Get(pos)
    /\ Get(pos)[i] < call.args.size
    /\ call.args.par \/ \A j \in 1..(i - 1) : Get(pos)[j] = call.args.size
    /\ dst' = CopyElement(call.op, [call.args EXCEPT !.src = src], dst, i - 1, Get(pos)[i])
    /\ pos' = Some([Get(pos) EXCEPT ![i] = @ + 1])
    /\ UNCHANGED <<sessVars, ctlVars, devVars, memCmds, call, ret, src>>

\* all iterations are finished: the call returns
CopyReturn ==
    /\ ~IsNone(pos)
    /\ \A i \in DOMAIN Get(pos) : Get(pos)[i] = call.args.size
    /\ pos' = None
    /\ Returns(call.op, call.args, Ok(<<>>))
    /\ UNCHANGED <<sessVars, ctlVars, devVars, src, dst>>

NextCopy ==
    \/ \E a \in CopyArgs("copy_array_chunks") : CopyCall("copy_array_chunks", a)
    \/ \E a \in CopyArgs("copy_array_strided") : CopyCall("copy_array_strided", a)
    \/ \E i \in 1..MaxChunks : CopyStep(i)
    \/ CopyReturn

SpecCopy == InitTools /\ [][NextCopy]_vars

(***************************************************************************)
(* Properties.                                                             *)
(***************************************************************************)
\* the factors the device supports on axis d in the active ROI binning mode
ActiveFactors(d) ==
    IF roi_binning_mode = "subsample" THEN SuppSub(subCaps, d) ELSE SuppBin(binCaps, d)

\* C1: ROI negotiation is idempotent: _trunc_roi applied to the output of
\* _trunc_roi(r) returns exactly that output, for every request r, geometry
\* and supported-factor set.
C1_NegotiationIdempotent ==
    (call.op = "_trunc_roi" /\ IsOk(ret)) => _trunc_roi(AsRequest(ret.val)) = ret

\* one axis of a negotiated ROI, in binned units: the span is at least
\* minSize, the start a multiple of positionStep, the span a multiple of
\* sizeStep, the end inside the binned detector, the factor supported
ValidAxis(start, end, f, lims, detsize, d) ==
    /\ (end \div f) - (start \div f) >= lims[1]
    /\ (start \div f) % lims[3] = 0
    /\ ((end \div f) - (start \div f)) % lims[2] = 0
    /\ (end \div f) <= detsize \div f
    /\ f \in ActiveFactors(d)

\* C2: the ROI returned by _trunc_roi satisfies on each axis, in binned
\* units, span >= minSize, start % positionStep = 0, span % sizeStep = 0,
\* end <= detectorExtent // factor, and its factor is a supported one.
C2_NegotiatedRoiValid ==
    (call.op = "_trunc_roi" /\ IsOk(ret)) =>
        /\ ValidAxis(ret.val[1], ret.val[2], ret.val[5], geom.hlims, geom.wdet, "h")
        /\ ValidAxis(ret.val[3], ret.val[4], ret.val[6], geom.vlims, geom.hdet, "v")

\* r is the clamp of the requested factor f to the set S
Clamped(f, S, r) ==
    /\ r \in S
    /\ r <= Max2(f, 1)
    /\ \A m \in S : m <= Max2(f, 1) => m <= r
    /\ (\A m \in S : f < m) => (\A m \in S : r <= m)

\* C3: _truncate_subsampling never fails and returns, on each axis, the
\* largest supported factor that is <= max(f,1); a request below every
\* supported factor (f <= 0 included) gets the smallest supported factor.
C3_FactorClamped ==
    call.op = "_truncate_subsampling" =>
        /\ IsOk(ret)
        /\ Clamped(call.args[1], call.args[3][1], ret.val[1])
        /\ Clamped(call.args[2], call.args[3][2], ret.val[2])

\* C3 witness: a request of (0, 3) against the sets ({1,2}, {1,2}) has been
\* clamped to (1, 2)
C3_Witness ==
    /\ call.op = "_truncate_subsampling"
    /\ call.args = <<0, 3, <<{1, 2}, {1, 2}>>>>
    /\ ret = Ok(<<1, 2>>)

\* C4: get_supported_binning_modes and get_supported_subsampling_modes each
\* return (horizontal factors, vertical factors), so that in either ROI
\* binning mode the negotiated horizontal factor is clamped against the
\* horizontal set and the vertical factor against the vertical set.
C4_ModesHorizontalFirst ==
    /\ call.op = "get_supported_binning_modes" =>
            ret.val = <<SuppBin(binCaps, "h"), SuppBin(binCaps, "v")>>
    /\ call.op = "get_supported_subsampling_modes" =>
            ret.val = <<SuppSub(subCaps, "h"), SuppSub(subCaps, "v")>>
    /\ (call.op = "_trunc_roi" /\ IsOk(ret)) =>
            /\ Clamped(call.args[5], ActiveFactors("h"), ret.val[5])
            /\ Clamped(call.args[6], ActiveFactors("v"), ret.val[6])

C6_RoundTrip ==
    [][(call.op = "get_roi" /\ call'.op = "set_roi" /\ call'.args = AsRequest(ret.val)) =>
            (ret' = ret /\ aoi' = aoi /\ devBin' = devBin /\ devSub' = devSub)]_vars

\* Life-cycle states.  The controller is Idle or Armed while no capture it
\* started is outstanding on the device, Armed when the pool is allocated;
\* its own in-progress flag is what it takes for Running.
NotCapturing == ~live
Armed        == ~live /\ ~IsNone(buffers)
InProgress   == acq_in_progress = TRUE

\* C7: stop_acquisition called in the Idle or Armed state (a second call
\* directly after a stop included) raises no error, issues no device command
\* and leaves the in-progress flag and the frame counters unchanged.
C7_StopNoOpWhenNotRunning ==
    [][(call'.op = "stop_acquisition" /\ NotCapturing) =>
            /\ IsOk(ret')
            /\ cmds' = cmds
            /\ acq_in_progress' = acq_in_progress
            /\ frame_counter' = frame_counter]_vars

\* how many times command c was issued between the logs before and after
Issued(before, after, c) ==
    Cardinality({i \in (Len(before) + 1)..Len(after) : after[i] = c})

\* C8: start_acquisition called in the Armed state completes with the
\* controller Running (in-progress flag true), the frame counters reset to
\* zero for the configured frame count, and the capture-start command issued
\* exactly once.
C8_StartFromArmed ==
    [][(call'.op = "start_acquisition" /\ Armed) =>
            /\ IsOk(ret')
            /\ acq_in_progress' = TRUE
            /\ frame_counter' = [nframes |-> Get(acq_params), acquired |-> 0]
            /\ Issued(cmds, cmds', "is_CaptureVideo") = 1]_vars

\* no two capture-start commands without a capture-stop between them
NoDoubleStart(log) ==
    \A i, j \in DOMAIN log :
        (i < j /\ log[i] = "is_CaptureVideo" /\ log[j] = "is_CaptureVideo") =>
            \E k \in (i + 1)..(j - 1) : log[k] = "is_StopLiveVideo"

\* C9: start_acquisition called while Running first stops: the capture-stop
\* command is issued before the new capture-start command, the call ends
\* Running with the counters reset, and there are never two capture-start
\* commands without a capture-stop between them.
C9_StartWhileRunning ==
    [][/\ NoDoubleStart(cmds')
       /\ (call'.op = "start_acquisition" /\ InProgress) =>
            /\ IsOk(ret')
            /\ \E i, j \in DOMAIN cmds' :
                    /\ Len(cmds) < i
                    /\ i < j
                    /\ cmds'[i] = "is_StopLiveVideo"
                    /\ cmds'[j] = "is_CaptureVideo"
            /\ acq_in_progress' = TRUE
            /\ frame_counter'.acquired = 0]_vars

\* C10: stop_acquisition called while Running samples the device's
\* acquired-frame count into the frame counter before it issues the
\* capture-stop command, and ends Armed (in-progress flag false) with the
\* buffer pool still allocated.
C10_StopWhileRunning ==
    [][(call'.op = "stop_acquisition" /\ InProgress) =>
            /\ IsOk(ret')
            /\ frame_counter'.acquired = seqCnt
            /\ cmds' = cmds \o <<"is_CameraStatus", "is_StopLiveVideo">>
            /\ acq_in_progress' = FALSE
            /\ buffers' = buffers
            /\ devMem' = devMem
            /\ devSeq' = devSeq]_vars

\* the pool holds no buffer: there is none, or it is an empty list
PoolEmpty(b) == IsNone(b) \/ Get(b) = <<>>

\* the names of the commands in a log of image-memory commands
Positions(log, name) == {i \in DOMAIN log : log[i][1] = name}

\* C11: when the device rejects an allocation or a sequence registration
\* during setup_acquisition, the call fails and afterwards no buffer is
\* allocated on or registered with the device and the pool is empty.
C11_AllocationRolledBack ==
    (call.op = "setup_acquisition" /\ ret.exc = "uc480LibError") =>
        /\ DOMAIN devMem = {}
        /\ devSeq = <<>>
        /\ PoolEmpty(buffers)

\* what clear_acquisition does to a pool that exists: the sequence is
\* cleared, every buffer freed, the pool gone
Released(b) ==
    /\ IsOk(ret')
    /\ memCmds' = <<<<"is_ClearSequence", 0>>>> \o FreeCmds(Get(b))
    /\ DOMAIN devMem' = (DOMAIN devMem) \ SeqRange(Get(b))
    /\ devSeq' = <<>>
    /\ IsNone(buffers')

\* no command, no error, nothing changed
NothingReleased ==
    /\ IsOk(ret')
    /\ memCmds' = <<>>
    /\ UNCHANGED <<buffers, devMem, devSeq>>

C13_SetupReplacesPool ==
    [][(call'.op = "setup_acquisition" /\ IsOk(ret')) =>
            /\ Len(Get(buffers')) = call'.args[1]
            /\ Cardinality(SeqRange(Get(buffers'))) = call'.args[1]
            /\ DOMAIN devMem' = SeqRange(Get(buffers'))
            /\ devSeq' = Get(buffers')
            /\ \A id \in DOMAIN devMem :
                   \E i \in Positions(memCmds', "is_FreeImageMem") :
                       /\ memCmds'[i][2] = id
                       /\ \A j \in Positions(memCmds', "is_AllocImageMem") : i < j]_vars

\* C13 witness: setup_acquisition(2) has replaced an earlier pool
C13_Witness ==
    /\ call.op = "setup_acquisition"
    /\ call.args = <<2>>
    /\ IsOk(ret)
    /\ Positions(memCmds, "is_FreeImageMem") # {}
    /\ Len(Get(buffers)) = 2

\* C14: for a pool of N >= 1 slots, _read_buffer(i) queries the image info
\* of slot i mod N and, when the frame can be decoded, copies from that same
\* slot; index i + N reads the same slot; the read changes neither the pool
\* nor the acquisition state.
C14_ReadModuloRing ==
    [][(call'.op = "_read_buffer" /\ ~PoolEmpty(buffers)) =>
            /\ memCmds'[1] = <<"is_GetImageInfo",
                               Get(buffers)[(call'.args[1] % Len(Get(buffers))) + 1]>>
            /\ IsOk(ret') =>
                   (/\ ret'.val.slot = call'.args[1] % Len(Get(buffers))
                    /\ memCmds'[2] = <<"is_CopyImageMem", memCmds'[1][2]>>
                    /\ _read_buffer(DevM, call'.args[1] + Len(Get(buffers))).val = ret'.val)
            /\ UNCHANGED <<buffers, devMem, devSeq, acq_in_progress, acq_params,
                           frame_counter, live, seqCnt>>]_vars

\* C14 witness: index 3 of a ring of two slots has read slot 1
C14_Witness ==
    /\ call.op = "_read_buffer"
    /\ call.args = <<3>>
    /\ IsOk(ret)
    /\ Len(Get(buffers)) = 2
    /\ ret.val.slot = 1
    /\ ret.val.id = Get(buffers)[2]

\* C15: reading a frame whose slot the device has not filled (no capture has
\* completed: the sequence counter is 0) fails with FrameNotReady and
\* returns no pixel data.
C15_UnfilledSlotNotReady ==
    (call.op = "_read_buffer" /\ ~PoolEmpty(buffers) /\ seqCnt = 0) =>
        (ret.exc = "FrameNotReady" /\ ret.val = <<>>)

\* the factors and the rectangle set_roi negotiates for its arguments t
NegotiatedApplied(t) ==
    /\ (IF roi_binning_mode = "subsample" THEN devSub' ELSE devBin') = <<t[5], t[6]>>
    /\ (IF roi_binning_mode = "subsample" THEN devBin' ELSE devSub') = <<1, 1>>
    /\ aoi' = IS_RECT(t)

\* C16: geometry is never partially applied: after set_roi either the
\* negotiated factors and the negotiated rectangle are all on the device, or
\* (a device command failed) binning, subsampling and ROI are all as they
\* were before the call.
C16_GeometryAtomic ==
    [][call'.op = "set_roi" =>
            IF IsOk(ret') THEN NegotiatedApplied(_trunc_roi(call'.args).val)
            ELSE UNCHANGED <<devBin, devSub, aoi>>]_vars

\* C17: after _check_all_color_modes has returned or raised, the device
\* color mode is the one it had before the probing.
C17_ProbeRestoresColorMode ==
    [][call'.op = "_check_all_color_modes" => colorMode' = colorMode]_vars

\* C18: with a pool of N >= 1 slots and an active pixel format of defined
\* (bitDepth, channelCount), _read_buffer succeeds; its array has elements of
\* bitDepth / channelCount / 8 bytes and the shape (height, width) for one
\* channel, (height, width, channelCount) otherwise.
C18_DecodedShapeAndWidth ==
    (call.op = "_read_buffer" /\ ~PoolEmpty(buffers) /\ ~IsNone(_mode_properties(colorMode))) =>
        /\ IsOk(ret)
        /\ ret.val.itemsize * 8 * Get(_mode_properties(colorMode))[2]
                = Get(_mode_properties(colorMode))[1]
        /\ ret.val.shape =
                IF Get(_mode_properties(colorMode))[2] = 1
                THEN <<devMem[ret.val.id][2], devMem[ret.val.id][1]>>
                ELSE <<devMem[ret.val.id][2], devMem[ret.val.id][1],
                       Get(_mode_properties(colorMode))[2]>>

\* C19: with a pool of N >= 1 slots and an active pixel format without
\* (bitDepth, channelCount) properties (jpeg, cbycryp, rgb8plan),
\* _read_buffer fails with UnsupportedFormat and issues no buffer copy.
C19_UnsupportedFormatError ==
    (call.op = "_read_buffer" /\ ~PoolEmpty(buffers) /\ IsNone(_mode_properties(colorMode))) =>
        /\ ret.exc = "UnsupportedFormat"
        /\ Positions(memCmds, "is_CopyImageMem") = {}

\* a request with each missing end replaced by the detector extent
WithEnds(r) ==
    <<r[1], Some(IF IsNone(r[2]) THEN geom.wdet ELSE Get(r[2])),
      r[3], Some(IF IsNone(r[4]) THEN geom.hdet ELSE Get(r[4])), r[5], r[6]>>

\* C20: negotiating with end=None gives the same result as negotiating with
\* end = detector extent; on the 1280x1024 sensor (minimal size 16, size step
\* 4, position step 2, factors 1, 2, 4) the request (10, 1277, 0, None, 3, 1)
\* yields the horizontal factor 2, an even horizontal start, a horizontal
\* span that is a multiple of 4 (binned and unbinned), and vEnd = 1024.
C20_EndDefaultsToDetector ==
    call.op = "_trunc_roi" =>
        /\ ret = _trunc_roi(WithEnds(call.args))
        /\ (geom \in ScenarioGeometries /\ call.args \in ScenarioRequests) =>
               (/\ IsOk(ret)
                /\ ret.val[5] = 2
                /\ ret.val[1] % 2 = 0
                /\ (ret.val[1] \div 2) % 2 = 0
                /\ (ret.val[2] - ret.val[1]) % 4 = 0
                /\ ((ret.val[2] - ret.val[1]) \div 2) % 4 = 0
                /\ ret.val[4] = 1024)

\* C20 witness: the request on the 1280x1024 sensor has been negotiated
C20_Witness ==
    /\ geom \in ScenarioGeometries
    /\ call.op = "_trunc_roi"
    /\ call.args = <<10, Some(1277), 0, None, 3, 1>>
    /\ ret = Ok(<<8, 1272, 0, 1024, 2, 1>>)

\* the life-cycle methods of the controller
LifecycleOps == {"setup_acquisition", "start_acquisition", "stop_acquisition",
                 "clear_acquisition"}

\* C21: a freshly constructed controller is Idle: its in-progress flag is
\* false before any start_acquisition, and the flag is true only if the most
\* recent life-cycle command was a start_acquisition that succeeded.
C21_FreshControllerIdle ==
    /\ Fresh => acq_in_progress = FALSE
    /\ (acq_in_progress = TRUE /\ call.op \in LifecycleOps) =>
           (call.op = "start_acquisition" /\ IsOk(ret))

\* the image-memory commands that release or register buffers
PoolCmds(log) ==
    Positions(log, "is_ClearSequence") \cup Positions(log, "is_FreeImageMem")
        \cup Positions(log, "is_AddToSequence")

CurrentFrameSize ==
    <<_get_data_dimensions_rc(DevD, aoi)[2], _get_data_dimensions_rc(DevD, aoi)[1],
      Get(_get_pixel_mode_settings)[1]>>

\* C23: whenever the pool holds buffers, every buffer in it was allocated
\* with the width and height of the current data dimensions and the bit
\* depth of the current color mode, also after set_roi or set_color_mode
\* called between setup and teardown.
C23_BuffersSizedForCurrentFrame ==
    (~PoolEmpty(buffers) /\ ~IsNone(_get_pixel_mode_settings)) =>
        \A id \in SeqRange(Get(buffers)) :
            id \in DOMAIN devMem /\ devMem[id] = CurrentFrameSize

\* an axis of a negotiated ROI lies inside the detector, in unbinned pixels
InsideDetector(start, end, detsize) == 0 <= start /\ start < end /\ end <= detsize

\* C24: for every request (negative or reversed start / end included) on a
\* geometry whose minimal size fits the binned detector extent, _trunc_roi
\* returns 0 <= hStart < hEnd <= maxWidth and 0 <= vStart < vEnd <= maxHeight.
C24_RoiInsideDetector ==
    call.op = "_trunc_roi" =>
        /\ IsOk(ret)
        /\ (/\ geom.hlims[1] <= geom.wdet \div ret.val[5]
            /\ geom.vlims[1] <= geom.hdet \div ret.val[6]) =>
               (/\ InsideDetector(ret.val[1], ret.val[2], geom.wdet)
                /\ InsideDetector(ret.val[3], ret.val[4], geom.hdet))

\* The image-memory commands of a log, from command k on, are legal for a
\* device on which the ids of alloc are allocated and those of reg are in
\* the capture sequence: only allocated ids are freed, read or registered,
\* and no id is registered twice.  An allocation the device rejected is
\* logged with id 0.
RECURSIVE LegalLog(_, _, _, _)
LegalCmd(log, k, alloc, reg, name, id) ==
    CASE name = "is_ClearSequence" -> LegalLog(log, k + 1, alloc, {})
      [] name = "is_FreeImageMem"  ->
            id \in alloc /\ LegalLog(log, k + 1, alloc \ {id}, reg \ {id})
      [] name = "is_AllocImageMem" ->
            id \notin alloc /\ LegalLog(log, k + 1, IF id = 0 THEN alloc ELSE alloc \cup {id}, reg)
      [] name = "is_AddToSequence" ->
            id \in alloc /\ id \notin reg /\ LegalLog(log, k + 1, alloc, reg \cup {id})
      [] OTHER -> id \in alloc /\ LegalLog(log, k + 1, alloc, reg)

LegalLog(log, k, alloc, reg) ==
    k > Len(log) \/ LegalCmd(log, k, alloc, reg, log[k][1], log[k][2])

\* C25: no double free and no use after free: every call frees, registers
\* and reads only buffers that are allocated at that moment, registers no
\* buffer twice, and a read with no pool fails without a device command; the
\* pool never names a buffer twice or a buffer that is not allocated.
C25_NoDoubleFreeNoUseAfterFree ==
    [][/\ LegalLog(memCmds', 1, DOMAIN devMem, SeqRange(devSeq))
       /\ ~IsNone(buffers') =>
              (/\ SeqRange(Get(buffers')) \subseteq DOMAIN devMem'
               /\ Cardinality(SeqRange(Get(buffers'))) = Len(Get(buffers')))
       /\ (call'.op = "_read_buffer" /\ IsNone(buffers)) =>
              (~IsOk(ret') /\ memCmds' = <<>>)]_vars

\* C25 witness: setup_acquisition(2) has freed buffer 1, left by an earlier
\* call, and the device has given out id 1 again
C25_Witness ==
    /\ call.op = "setup_acquisition"
    /\ IsOk(ret)
    /\ memCmds = << <<"is_ClearSequence", 0>>, <<"is_FreeImageMem", 1>>,
                    <<"is_AllocImageMem", 1>>, <<"is_AddToSequence", 1>>,
                    <<"is_AllocImageMem", 2>>, <<"is_AddToSequence", 2>> >>

\* width in bytes and signedness of the result of each decoding function
DecodeWidth ==
    [au1 |-> 1, au2 |-> 2, au4 |-> 4, au8 |-> 8, ai1 |-> 1, ai2 |-> 2, ai4 |-> 4, ai8 |-> 8]
DecodeSigned == {"ai1", "ai2", "ai4", "ai8"}

\* the integer a decoded value of one or two bytes stands for
UnsignedOf(bytes) == IF Len(bytes) = 1 THEN bytes[1] ELSE bytes[1] + 256 * bytes[2]
IntOf(r) ==
    IF r.signed /\ r.bytes[Len(r.bytes)] >= 128
    THEN UnsignedOf(r.bytes) - (IF Len(r.bytes) = 1 THEN 256 ELSE 65536)
    ELSE UnsignedOf(r.bytes)

\* the sum over i < n of x[off+i] * 256^i, for n <= 2
LittleEndian(x, off, n) == IF n = 1 THEN x[off + 1] ELSE x[off + 1] + 256 * x[off + 2]

Writer  == CHOOSE i \in DOMAIN Get(pos) : Get(pos')[i] # Get(pos)[i]
Changed == {k \in DOMAIN dst : dst'[k] # dst[k]}

\* C27: the iterations of the parallel copy write pairwise disjoint
\* destination ranges [i*size, (i+1)*size): each step of iteration i writes
\* inside its own range, so when the call returns, under every interleaving,
\* the destination equals that of the copy with par=False, the source is
\* unchanged, and the destination elements from n*size on are unchanged.
C27_ParallelCopyEqualsSequential ==
    [][/\ (~IsNone(pos) /\ ~IsNone(pos')) =>
              (/\ Changed \subseteq {k \in DOMAIN dst : (Writer - 1) * call.args.size < k
                                                      /\ k <= Writer * call.args.size}
               /\ \A j \in DOMAIN Get(pos) \ {Writer} :
                      Changed \cap {k \in DOMAIN dst : (j - 1) * call.args.size < k
                                                      /\ k <= j * call.args.size} = {}
               /\ src' = src)
       /\ (~IsNone(pos) /\ IsNone(pos')) =>
              (/\ IsOk(ret')
               /\ dst' = CopySequential(call.op, call.args)
               /\ src' = call.args.src
               /\ \A k \in DOMAIN dst' :
                      k > call.args.n * call.args.size => dst'[k] = call.args.dst[k])]_vars

\* C27 witness: a parallel strided copy of three chunks of two elements is
\* under way with the last iteration ahead of the first, which has not
\* written yet
C27_Witness ==
    /\ call.op = "copy_array_strided"
    /\ call.args.par
    /\ call.args.n = 3
    /\ call.args.size = 2
    /\ pos = Some(<<0, 1, 2>>)
    /\ dst[6] # 0
    /\ dst[1] = 0
====
